---- MODULE Spec2Model ----
(***************************************************************************)
(* Model of the long-poll update broker of ChaaAt_backend:                 *)
(*   index/views/updates.py  UpdateManager (commit, next, pop_caches)      *)
(*                           UpdateAPIView (get, delete)                   *)
(* The broker runs on one asyncio event loop.  Every action below is one   *)
(* uninterrupted run of Python code between two suspension points; the     *)
(* only suspension point is `await aio.wait_for(future, timeout)` in next. *)
(***************************************************************************)
EXTENDS Integers, Sequences, FiniteSets, TLC

\* ---------------------------------------------------------------- bounds
MaxCalls == 2
MaxCommits == 2
MaxPops == 2
MaxWideOps == 4
MaxRequests == 2
MaxRows == 2
MaxConns == 2
MaxFutures == 3
MaxRooms == 3
\* the primary keys given to requests
MaxReqs == 2
\* the chatrooms and requests created in a history of the request handlers
MaxObjects == 4

Calls == 1..MaxCalls

\* the list requests and the ids of the messages that can be created
Requests == 1..MaxRequests
RowIds == 1..MaxRows

\* the websocket connections, the users and the models UpdateConsumer
\* subscribes to
Conns == 1..MaxConns
Users == {"alice", "bob"}
Anonymous == "anonymous"
Models == {"Message", "FriendshipRequest", "ChatroomMembershipRequest",
           "Friendship", "ChatroomMembership"}
Events == {"create", "update", "delete"}

\* the users that make friends
People == {"alice", "bob", "carol"}

ReqIds == 1..MaxReqs

\* a primary key no request was given yet
NoRequest == [kind |-> "none", user |-> "none", target |-> "none",
              chatroom |-> 0, state |-> "absent"]

\* the keys in use (str(request.user)); every operation reads and writes the
\* entries of self.key only, and this specification follows one key
Keys == {"alice"}
Labels == {"message.create"}

\* two users and two of the labels the views commit with, for the
\* specification that follows several keys at once
AllKeys == {"alice", "bob"}
AllLabels == {"message.create", "friend_relation.create"}

\* Python None, in the shape of an update so that it compares with one
None == [label |-> "None", data |-> 0]

\* ------------------------------------------------------------ dict helpers
\* dict.get(key, default)
DictGet(d, k, default) == IF k \in DOMAIN d THEN d[k] ELSE default

\* d[key] = value
DictSet(d, k, v) == [x \in DOMAIN d \cup {k} |-> IF x = k THEN v ELSE d[x]]

\* del d[key]
DictDel(d, k) == [x \in DOMAIN d \ {k} |-> d[x]]

EmptyDict == [x \in {} |-> 0]

\* no pop_caches call of a DELETE is between its two statements
NoDelete ==
    [key |-> "none", read |-> <<>>, shared |-> FALSE, began |-> 0, readAt |-> 0]

\* -------------------------------------------------------- asyncio.Future
NewFuture == [state |-> "PENDING", result |-> None]

Done(f) == f.state # "PENDING"

\* Future.set_result on a pending future
SetResult(fs, h, v) == [fs EXCEPT ![h] = [state |-> "FINISHED", result |-> v]]

\* Future.cancel on a pending future
CancelFuture(fs, h) == [fs EXCEPT ![h] = [state |-> "CANCELLED", result |-> None]]

\* ------------------------------------------------------------------ state
VARIABLES
    waiters,      \* UpdateManager.__waiters_mapping : key -> future handle
    cache_pools,  \* UpdateManager.__cache_pools_mapping : key -> list
    futures,      \* the aio.Future objects created by next, by handle
    pc,           \* per call: "idle", "suspended", "cancelling", "done"
    kind,         \* per call: "next" (UpdateManager.next) or "get" (view)
    ckey,         \* per call: self.key
    fut,          \* per call: local `future` (handle), 0 before the call
    wake,         \* per call: what released the waiter of wait_for besides
                  \* the future: "none", "timeout" (the timer fired) or
                  \* "cancel" (the calling request's task was cancelled)
    update,       \* per call: local `update` of next
    data,         \* per call: local `data` of UpdateAPIView.get
    commits,      \* history: one record per commit call
    pops,         \* history: one record per pop_caches call
    \* index/views/messages.py MessageAPIViewSet, the list of messages
    rows,         \* the Message rows of the chatroom: id -> the user of
                  \* its sender_membership
    rowSeq,       \* the last id given to a Message row
    lpc,          \* per list request: "idle" or "done" (it has responded)
    luser,        \* per list request: request.user
    response,     \* per list request: the list it responded with
    \* index/consumers.py UpdateConsumer and the rows its conditions read
    conn,         \* per connection: "new", "open", "ended" (the websocket
                  \* is gone), "closed" (closed by connect)
    cuser,        \* per connection: self.scope['user']
    receivers,    \* the receivers connected to post_save and post_delete
    members,      \* the memberships of the chatroom: user -> is_manager
    lastSent,     \* the messages passed to self.send by the last signal
    deletedRows,  \* the users of the membership rows a Chatroom.delete()
                  \* has deleted and not yet sent post_delete for
    \* index/views/messages.py MessageAPIViewSet.perform_create
    mpc,          \* per message: "idle", "saved" (persisted, the members
                  \* not yet read), "done", "raised" (perform_create ended
                  \* with an exception)
    \* index/models.py Friendship, Chatroom, ChatroomMembership
    friendships,  \* the Friendship rows: [user, target, chatroom]
    chatrooms,    \* the Chatroom rows: [id, creator, friendship_exclusive]
    memberships,  \* the ChatroomMembership rows: [user, chatroom, is_manager]
    roomSeq,      \* the last primary key given to a Chatroom
    raised,       \* the exception the last model operation ended with
    \* index/models.py FriendshipRequest, ChatroomMembershipRequest
    requests,     \* per primary key: [kind, user, target, chatroom, state]
    created,      \* per request: how many times its accept created the
                  \* friendship or the membership
    \* drfutils/mixins.py UpdateManagerMixin, over several view classes
    all_update_waiters,       \* hash(class) -> key -> future handle
    all_updates_cache_pools,  \* hash(class) -> key -> list of updates
    cview,        \* per call of wait_update: the view instance it runs on
    \* index/views/updates.py UpdateAPIView.delete on the worker thread
    deleting      \* the pop_caches call of a DELETE between its read (line
                  \* 62) and its write (line 63): [key, read, at], or NoDelete

brokerVars == <<waiters, cache_pools, futures, pc, kind, ckey, fut, wake,
                update, data, commits, pops>>

listVars == <<rows, rowSeq, lpc, luser, response>>

\* the list state a deletion of rows leaves alone
listCallVars == <<rowSeq, lpc, luser, response>>

\* the state outside the update broker, which no broker operation touches
consumerVars == <<conn, cuser, receivers, members, lastSent, deletedRows>>

classVars == <<all_update_waiters, all_updates_cache_pools, cview>>

friendVars == <<friendships, chatrooms, memberships, roomSeq, raised,
                requests, created>>

nonClassVars == <<listVars, consumerVars, mpc, friendVars, deleting>>

nonListVars == <<brokerVars, consumerVars, mpc, friendVars, classVars, deleting>>

nonConsumerVars == <<brokerVars, listVars, mpc, friendVars, classVars, deleting>>

\* the state outside the consumer and the list
nonRowVars == <<brokerVars, mpc, friendVars, classVars, deleting>>

nonFriendVars == <<brokerVars, listVars, consumerVars, mpc, classVars, deleting>>

\* the state outside the update broker
appVars == <<listVars, consumerVars, mpc, friendVars, classVars>>

\* the state that only UpdateAPIView.delete touches, and the state outside
\* the update broker
domainVars == <<deleting, appVars>>

vars == <<brokerVars, domainVars>>

callVars == <<pc, kind, ckey, fut, wake, update, data>>

\* the waiter table has an entry for k whose handle is pending
PendingWaiter(k) == k \in DOMAIN waiters /\ ~Done(futures[waiters[k]])

\* call slots are taken in order: slot t is used once slots 1..t-1 are
CanStart(t) == pc[t] = "idle" /\ \A s \in Calls : s < t => pc[s] # "idle"

InFlight(t) == pc[t] \in {"suspended", "cancelling"}

\* the calls of next that are suspended on key k
Suspended(k) == {t \in Calls : InFlight(t) /\ ckey[t] = k}

Init ==
    /\ waiters = EmptyDict
    /\ cache_pools = EmptyDict
    /\ futures = <<>>
    /\ pc = [t \in Calls |-> "idle"]
    /\ kind = [t \in Calls |-> "next"]
    /\ ckey = [t \in Calls |-> "alice"]
    /\ fut = [t \in Calls |-> 0]
    /\ wake = [t \in Calls |-> "none"]
    /\ update = [t \in Calls |-> None]
    /\ data = [t \in Calls |-> <<>>]
    /\ commits = <<>>
    /\ pops = <<>>
    /\ rows = EmptyDict
    /\ rowSeq = 0
    /\ lpc = [r \in Requests |-> "idle"]
    /\ luser = [r \in Requests |-> "none"]
    /\ response = [r \in Requests |-> <<>>]
    /\ conn = [c \in Conns |-> "new"]
    /\ cuser = [c \in Conns |-> Anonymous]
    /\ receivers = {}
    /\ members = EmptyDict
    /\ lastSent = {}
    /\ deletedRows = {}
    /\ mpc = [m \in RowIds |-> "idle"]
    /\ friendships = {}
    /\ chatrooms = {}
    /\ memberships = {}
    /\ roomSeq = 0
    /\ raised = "none"
    /\ requests = [r \in ReqIds |-> NoRequest]
    /\ created = [r \in ReqIds |-> 0]
    /\ all_update_waiters = EmptyDict
    /\ all_updates_cache_pools = EmptyDict
    /\ cview = [t \in Calls |-> "none"]
    /\ deleting = NoDelete

\* ----------------------------------------------------- UpdateManager.commit
\* the list appended to by commit: setdefault(key, []) then append
\* (mutant) the update is put at the head of the list
CachePrepend(pools, k, u) == DictSet(pools, k, <<u>> \o DictGet(pools, k, <<>>))

CacheAppend(pools, k, u) == DictSet(pools, k, Append(DictGet(pools, k, <<>>), u))

\* line 25: `update = [self.label, update]`
\* (mutant) the label is one fixed string, not the one of the instance
FixedLabelUpdate(l, d) == [label |-> "message.create", data |-> d]

LabelledUpdate(l, d) == [label |-> l, data |-> d]

\* (mutant) the waiter table is not consulted: every update goes to the cache
CommitAlwaysCaches(k) == "cached"

CommitOutcome(k) ==
    IF k \in DOMAIN waiters
    THEN IF Done(futures[waiters[k]]) THEN "InvalidStateError" ELSE "sent"
    ELSE "cached"

Commit(k, l) ==
    /\ Len(commits) < MaxCommits
    /\ LET d == Len(commits) + 1
           u == LabelledUpdate(l, d)
           outcome == CommitOutcome(k)
       IN /\ futures' = IF outcome = "sent"
                        THEN SetResult(futures, waiters[k], u)
                        ELSE futures
          /\ cache_pools' = IF outcome = "cached"
                            THEN CacheAppend(cache_pools, k, u)
                            ELSE cache_pools
          /\ commits' = Append(commits,
                               [key |-> k, label |-> l, payload |-> d,
                                update |-> u, outcome |-> outcome,
                                waiting |-> Suspended(k),
                                pending |-> PendingWaiter(k)])
          \* line 32 appends to the list object of the dictionary, which a
          \* DELETE between its two statements holds in `updates` when it
          \* read the list of this key from the dictionary
          /\ deleting' = IF outcome = "cached" /\ deleting.key = k
                             /\ deleting.shared
                          THEN [deleting EXCEPT !.read = cache_pools'[k]]
                          ELSE deleting
    /\ UNCHANGED <<waiters, callVars, pops>>
    /\ UNCHANGED appVars

\* ------------------------------------------------- UpdateManager.pop_caches
PopResult(k) == DictGet(cache_pools, k, <<>>)

\* (mutant) the list is returned but not replaced by an empty one
PopPoolsKept(k) == DictSet(cache_pools, k, DictGet(cache_pools, k, <<>>))

\* (mutant) the key is removed from the cache map
PopPoolsDeleted(k) == DictDel(cache_pools, k)

PopPools(k) == DictSet(cache_pools, k, <<>>)

\* the pop_caches calls made or under way
PopsUsed == Len(pops) + IF deleting = NoDelete THEN 0 ELSE 1

\* the history of a pop_caches call: `began` pop_caches calls had returned
\* when it started, `readAt` commits had been made when it read the list
\* (line 62) and `at` when it replaced it (line 63)
PopRecord(k) ==
    [key |-> k, result |-> PopResult(k), began |-> Len(pops),
     readAt |-> Len(commits), at |-> Len(commits), discarded |-> FALSE]

\* ------------------------------------------------------- UpdateManager.next
\* lines 37-46: take or create the future, install it, suspend in wait_for
NextFuture(k) == DictGet(waiters, k, Len(futures) + 1)

NextFutures(k) ==
    IF k \in DOMAIN waiters THEN futures ELSE Append(futures, NewFuture)

NextInstall(t, k, kd) ==
    /\ fut' = [fut EXCEPT ![t] = NextFuture(k)]
    /\ futures' = NextFutures(k)
    /\ waiters' = DictSet(waiters, k, NextFuture(k))
    /\ pc' = [pc EXCEPT ![t] = "suspended"]
    /\ kind' = [kind EXCEPT ![t] = kd]
    /\ ckey' = [ckey EXCEPT ![t] = k]
    /\ UNCHANGED <<wake, update, data>>

NextCall(t, k) ==
    /\ CanStart(t)
    /\ NextInstall(t, k, "next")
    /\ UNCHANGED <<cache_pools, commits, pops>>
    /\ UNCHANGED domainVars

\* the timer of wait_for fires.  Once the future is done neither the timer
\* nor a cancellation changes what wait_for returns (both of its branches
\* start with `if fut.done(): return fut.result()`), and a cancellation
\* during _cancel_and_wait only replaces TimeoutError by CancelledError, so
\* they are recorded only while the call is suspended on a pending future.
Timeout(t) ==
    /\ pc[t] = "suspended"
    /\ ~Done(futures[fut[t]])
    /\ wake[t] = "none"
    /\ wake' = [wake EXCEPT ![t] = "timeout"]
    /\ UNCHANGED <<waiters, cache_pools, futures, pc, kind, ckey, fut,
                   update, data, commits, pops>>
    /\ UNCHANGED domainVars

\* the request running the call is cancelled (client disconnect)
CancelRequest(t) ==
    /\ pc[t] = "suspended"
    /\ ~Done(futures[fut[t]])
    /\ wake[t] # "cancel"
    /\ wake' = [wake EXCEPT ![t] = "cancel"]
    /\ UNCHANGED <<waiters, cache_pools, futures, pc, kind, ckey, fut,
                   update, data, commits, pops>>
    /\ UNCHANGED domainVars

\* lines 49-57: the finally block, then the return to the caller
\* (for a get call, lines 78-81 of UpdateAPIView.get)
\* (mutant) the cleanup sits after the await inside `try`: a timeout skips it
WaitersCleanupInTry(t) ==
    IF wake[t] # "timeout" /\ ckey[t] \in DOMAIN waiters
    THEN DictDel(waiters, ckey[t]) ELSE waiters

\* (mutant) the cleanup sits after the try statement: a cancellation skips it
WaitersCleanupAfterTry(t) ==
    IF wake[t] # "cancel" /\ ckey[t] \in DOMAIN waiters
    THEN DictDel(waiters, ckey[t]) ELSE waiters

\* (mutant) the cleanup empties the whole waiter table
WaitersCleared(t) == EmptyDict

WaitersAfterFinally(t) ==
    IF ckey[t] \in DOMAIN waiters THEN DictDel(waiters, ckey[t]) ELSE waiters

GetData(u) == IF u # None THEN <<u>> ELSE <<>>

NextReturn(t, u) ==
    /\ waiters' = WaitersAfterFinally(t)
    /\ update' = [update EXCEPT ![t] = u]
    /\ data' = [data EXCEPT ![t] = IF kind[t] = "get" THEN GetData(u) ELSE <<>>]
    /\ pc' = [pc EXCEPT ![t] = "done"]
    /\ UNCHANGED <<kind, ckey, fut, wake>>

\* (mutant) the future is awaited without a timeout and the cancellation of
\* the task is not delivered
WakeableByFutureOnly(t) == Done(futures[fut[t]])

\* wait_for resumes after its waiter was released by the future's done
\* callback, by the timer or by the cancellation of the task
Wakeable(t) == Done(futures[fut[t]]) \/ wake[t] # "none"

NextResume(t) ==
    /\ pc[t] = "suspended"
    /\ Wakeable(t)
    /\ IF Done(futures[fut[t]])
       THEN \* wait_for: `if fut.done(): return fut.result()`
            /\ IF futures[fut[t]].state = "FINISHED"
               THEN NextReturn(t, futures[fut[t]].result)
               ELSE NextReturn(t, None)
            /\ UNCHANGED futures
       ELSE \* wait_for: `await _cancel_and_wait(fut)` cancels the future
            /\ futures' = CancelFuture(futures, fut[t])
            /\ pc' = [pc EXCEPT ![t] = "cancelling"]
            /\ UNCHANGED <<waiters, kind, ckey, fut, wake, update, data>>
    /\ UNCHANGED <<cache_pools, commits, pops>>
    /\ UNCHANGED domainVars

\* _cancel_and_wait is over: TimeoutError or CancelledError reaches next
NextFinish(t) ==
    /\ pc[t] = "cancelling"
    /\ NextReturn(t, None)
    /\ UNCHANGED <<cache_pools, futures, commits, pops>>
    /\ UNCHANGED domainVars

\* --------------------------------------------------------- UpdateAPIView
\* (mutant) the test of the drained list is inverted
GetCacheMiss(k) == PopResult(k) = <<>>

\* `if updates := update_manager.pop_caches():`
GetCacheHit(k) == PopResult(k) # <<>>

Get(t, k) ==
    /\ CanStart(t)
    /\ PopsUsed < MaxPops
    /\ pops' = Append(pops, PopRecord(k))
    /\ cache_pools' = PopPools(k)
    /\ IF GetCacheHit(k)
       THEN /\ data' = [data EXCEPT ![t] = PopResult(k)]
            /\ pc' = [pc EXCEPT ![t] = "done"]
            /\ kind' = [kind EXCEPT ![t] = "get"]
            /\ ckey' = [ckey EXCEPT ![t] = k]
            /\ UNCHANGED <<waiters, futures, fut, wake, update>>
       ELSE NextInstall(t, k, "get")
    \* line 63 puts a new list in the dictionary: the list a DELETE read
    \* at line 62 is no longer the one commit appends to
    /\ deleting' = IF deleting.key = k
                    THEN [deleting EXCEPT !.shared = FALSE]
                    ELSE deleting
    /\ UNCHANGED commits
    /\ UNCHANGED appVars

\* UpdateAPIView.delete is a plain function: AsyncMixin.dispatch runs it
\* with sync_to_async (drfutils/mixins.py lines 52-54), on a worker thread,
\* while commit, next and get run on the thread of the event loop.  The two
\* statements of its pop_caches call are two steps, and the steps of the
\* event loop may come between them.  The worker runs one handler at a time.
\* the pop_caches call of delete, whose result is dropped (`Response()`):
\* the result is the list object line 62 read, with what commit appended
\* to it while it was the list of the dictionary
DeleteRecord(d) ==
    [key |-> d.key, result |-> d.read, began |-> d.began,
     readAt |-> d.readAt, at |-> Len(commits), discarded |-> TRUE]

\* line 62 of pop_caches, called by delete for key k: `updates` is the
\* list object of the dictionary when the key is there (`shared`), and a
\* new empty list when it is not
DeleteRead(k) ==
    /\ deleting = NoDelete
    /\ PopsUsed < MaxPops
    /\ deleting' = [key |-> k, read |-> PopResult(k),
                     shared |-> k \in DOMAIN cache_pools,
                     began |-> Len(pops), readAt |-> Len(commits)]
    /\ UNCHANGED <<brokerVars, appVars>>

\* (mutant) delete also drops the waiter entry of the key
DeleteWriteAndUnregister ==
    /\ deleting # NoDelete
    /\ cache_pools' = PopPools(deleting.key)
    /\ pops' = Append(pops, DeleteRecord(deleting))
    /\ waiters' = DictDel(waiters, deleting.key)
    /\ deleting' = NoDelete
    /\ UNCHANGED <<futures, callVars, commits, appVars>>

\* lines 63-64 of pop_caches and line 85 of delete: the list of the key is
\* replaced, whatever was appended to it since line 62
DeleteWrite ==
    /\ deleting # NoDelete
    /\ cache_pools' = PopPools(deleting.key)
    /\ pops' = Append(pops, DeleteRecord(deleting))
    /\ deleting' = NoDelete
    /\ UNCHANGED <<waiters, futures, callVars, commits, appVars>>

\* ------------------------------------------------------------------ specs
Next ==
    \/ \E k \in Keys, l \in Labels : Commit(k, l)
    \/ \E t \in Calls, k \in Keys : NextCall(t, k)
    \/ \E t \in Calls : Timeout(t)
    \/ \E t \in Calls : CancelRequest(t)
    \/ \E t \in Calls : NextResume(t)
    \/ \E t \in Calls : NextFinish(t)
    \/ \E t \in Calls, k \in Keys : Get(t, k)
    \/ \E k \in Keys : DeleteRead(k)
    \/ DeleteWrite

Spec == Init /\ [][Next]_vars

\* the broker as the application drives it: next is called by
\* UpdateAPIView.get only, pop_caches by get and delete only
NextView ==
    \/ \E k \in Keys, l \in Labels : Commit(k, l)
    \/ \E t \in Calls, k \in Keys : Get(t, k)
    \/ \E k \in Keys : DeleteRead(k)
    \/ DeleteWrite
    \/ \E t \in Calls : Timeout(t)
    \/ \E t \in Calls : CancelRequest(t)
    \/ \E t \in Calls : NextResume(t)
    \/ \E t \in Calls : NextFinish(t)

SpecView == Init /\ [][NextView]_vars

\* the broker with two keys and two labels; the histories explored are those
\* of at most MaxWideOps calls of commit, next, get, delete and pop_caches
OpsUsed ==
    Len(commits) + PopsUsed + Cardinality({t \in Calls : pc[t] # "idle"})

WideCommit(k, l) == OpsUsed < MaxWideOps /\ Commit(k, l)

WideNextCall(t, k) == OpsUsed < MaxWideOps /\ NextCall(t, k)

WideGet(t, k) == OpsUsed + 1 < MaxWideOps /\ Get(t, k)

WideDeleteRead(k) == OpsUsed < MaxWideOps /\ DeleteRead(k)

NextWide ==
    \/ \E k \in AllKeys, l \in AllLabels : WideCommit(k, l)
    \/ \E t \in Calls, k \in AllKeys : WideNextCall(t, k)
    \/ \E t \in Calls, k \in AllKeys : WideGet(t, k)
    \/ \E k \in AllKeys : WideDeleteRead(k)
    \/ DeleteWrite
    \/ \E t \in Calls : Timeout(t)
    \/ \E t \in Calls : CancelRequest(t)
    \/ \E t \in Calls : NextResume(t)
    \/ \E t \in Calls : NextFinish(t)

SpecWide == Init /\ [][NextWide]_vars

\* UpdateManager.next called again by a task that has returned from an
\* earlier call: the slot of the finished call is taken by the new one.  The
\* histories explored create at most MaxFutures futures.
NextCallLater(t, k) ==
    /\ pc[t] = "done"
    /\ Len(futures) < MaxFutures
    /\ fut' = [fut EXCEPT ![t] = NextFuture(k)]
    /\ futures' = NextFutures(k)
    /\ waiters' = DictSet(waiters, k, NextFuture(k))
    /\ pc' = [pc EXCEPT ![t] = "suspended"]
    /\ kind' = [kind EXCEPT ![t] = "next"]
    /\ ckey' = [ckey EXCEPT ![t] = k]
    /\ wake' = [wake EXCEPT ![t] = "none"]
    /\ update' = [update EXCEPT ![t] = None]
    /\ data' = [data EXCEPT ![t] = <<>>]
    /\ UNCHANGED <<cache_pools, commits, pops, domainVars>>

NextLater ==
    \/ \E k \in Keys, l \in Labels : Commit(k, l)
    \/ \E t \in Calls, k \in Keys : NextCall(t, k)
    \/ \E t \in Calls, k \in Keys : NextCallLater(t, k)
    \/ \E t \in Calls : Timeout(t)
    \/ \E t \in Calls : CancelRequest(t)
    \/ \E t \in Calls : NextResume(t)
    \/ \E t \in Calls : NextFinish(t)

SpecLater == Init /\ [][NextLater]_vars

\* UpdateManager.commit and UpdateManager.next under a fair event loop: the
\* timer of wait_for fires unless the wait ends first (call_later), and a
\* task whose waiter was released is resumed (call_soon)
NextLive ==
    \/ \E k \in Keys, l \in Labels : Commit(k, l)
    \/ \E t \in Calls, k \in Keys : NextCall(t, k)
    \/ \E t \in Calls : Timeout(t)
    \/ \E t \in Calls : CancelRequest(t)
    \/ \E t \in Calls : NextResume(t)
    \/ \E t \in Calls : NextFinish(t)

Fairness ==
    \A t \in Calls : /\ WF_vars(Timeout(t))
                     /\ WF_vars(NextResume(t))
                     /\ WF_vars(NextFinish(t))

SpecLive == Init /\ [][NextLive]_vars /\ Fairness

\* UpdateManager.commit and UpdateManager.next alone, every interleaving
SpecNext == Init /\ [][NextLive]_vars

\* ------------------------------------------- drfutils UpdateManagerMixin
\* The tables are those of one view class.  The update is the value the
\* caller passes; it is not wrapped.
\* commit_update: set_result on the handle of the key, whatever its state,
\* and `finally: del` of the entry; the cache when the key has no entry
CommitUpdateWaiters(k) ==
    IF k \in DOMAIN waiters THEN DictDel(waiters, k) ELSE waiters

CommitUpdate(k, l) ==
    /\ Len(commits) < MaxCommits
    /\ LET d == Len(commits) + 1
           u == LabelledUpdate(l, d)
           outcome == CommitOutcome(k)
       IN /\ futures' = IF outcome = "sent"
                        THEN SetResult(futures, waiters[k], u)
                        ELSE futures
          /\ waiters' = CommitUpdateWaiters(k)
          /\ cache_pools' = IF outcome = "cached"
                            THEN CacheAppend(cache_pools, k, u)
                            ELSE cache_pools
          /\ commits' = Append(commits,
                               [key |-> k, label |-> l, payload |-> d,
                                update |-> u, outcome |-> outcome,
                                waiting |-> Suspended(k),
                                pending |-> PendingWaiter(k)])
    /\ UNCHANGED <<callVars, pops>>
    /\ UNCHANGED domainVars

\* wait_update up to its await: a new future always, which replaces the
\* entry of the key
WaitUpdate(t, k) ==
    /\ CanStart(t)
    /\ fut' = [fut EXCEPT ![t] = Len(futures) + 1]
    /\ futures' = Append(futures, NewFuture)
    /\ waiters' = DictSet(waiters, k, Len(futures) + 1)
    /\ pc' = [pc EXCEPT ![t] = "suspended"]
    /\ kind' = [kind EXCEPT ![t] = "wait_update"]
    /\ ckey' = [ckey EXCEPT ![t] = k]
    /\ UNCHANGED <<wake, update, data, cache_pools, commits, pops>>
    /\ UNCHANGED domainVars

\* the request running wait_update is cancelled, while wait_for waits on
\* the pending future or while it is in _cancel_and_wait after its timer
\* fired (CancelledError then replaces TimeoutError)
WaitUpdateCancel(t) ==
    /\ \/ pc[t] = "suspended" /\ ~Done(futures[fut[t]])
       \/ pc[t] = "cancelling"
    /\ wake[t] # "cancel"
    /\ wake' = [wake EXCEPT ![t] = "cancel"]
    /\ UNCHANGED <<waiters, cache_pools, futures, pc, kind, ckey, fut,
                   update, data, commits, pops>>
    /\ UNCHANGED domainVars

\* wait_update has no finally block: the waiter table is left as it is.
\* TimeoutError is caught and None returned; CancelledError is not caught.
WaitUpdateExit(t) == IF wake[t] = "cancel" THEN "cancelled" ELSE "done"

WaitUpdateResume(t) ==
    /\ pc[t] = "suspended"
    /\ Wakeable(t)
    /\ IF Done(futures[fut[t]])
       THEN /\ update' = [update EXCEPT ![t] =
                             IF futures[fut[t]].state = "FINISHED"
                             THEN futures[fut[t]].result ELSE None]
            /\ pc' = [pc EXCEPT ![t] =
                         IF futures[fut[t]].state = "FINISHED"
                         THEN "done" ELSE "cancelled"]
            /\ UNCHANGED futures
       ELSE /\ futures' = CancelFuture(futures, fut[t])
            /\ pc' = [pc EXCEPT ![t] = "cancelling"]
            /\ UNCHANGED update
    /\ UNCHANGED <<waiters, cache_pools, kind, ckey, fut, wake, data,
                   commits, pops>>
    /\ UNCHANGED domainVars

WaitUpdateFinish(t) ==
    /\ pc[t] = "cancelling"
    /\ pc' = [pc EXCEPT ![t] = WaitUpdateExit(t)]
    /\ update' = [update EXCEPT ![t] = None]
    /\ UNCHANGED <<waiters, cache_pools, futures, kind, ckey, fut, wake,
                   data, commits, pops>>
    /\ UNCHANGED domainVars

PopCachedUpdates(k) ==
    /\ Len(pops) < MaxPops
    /\ cache_pools' = PopPools(k)
    /\ pops' = Append(pops, PopRecord(k))
    /\ UNCHANGED <<waiters, futures, callVars, commits>>
    /\ UNCHANGED domainVars

NextMixin ==
    \/ \E k \in Keys, l \in Labels : CommitUpdate(k, l)
    \/ \E t \in Calls, k \in Keys : WaitUpdate(t, k)
    \/ \E k \in Keys : PopCachedUpdates(k)
    \/ \E t \in Calls : Timeout(t)
    \/ \E t \in Calls : WaitUpdateCancel(t)
    \/ \E t \in Calls : WaitUpdateResume(t)
    \/ \E t \in Calls : WaitUpdateFinish(t)

SpecMixin == Init /\ [][NextMixin]_vars

\* ------------------- drfutils UpdateManagerMixin, several view classes
\* __all_update_waiters and __all_updates_cache_pools (lines 111-112) are
\* attributes of UpdateManagerMixin itself: one pair of dictionaries for
\* every class that inherits the mixin, indexed by hash(self.__class__).
\* the class of each view instance
ClassOf == [a1 |-> "A", a2 |-> "A", b1 |-> "B"]

Views == DOMAIN ClassOf

\* id(cls): the address of the class object; two live objects never share
\* an address, and objects are aligned to 16 bytes
ClassId == [A |-> 4096, B |-> 5120]

\* (mutant) every class has the same hash
ClassHashConstant(c) == 0

\* hash(cls), object.__hash__: the address rotated right by four bits; the
\* four low bits, which would go to the top, are zero by the alignment
ClassHash(c) == ClassId[c] \div 16

\* the __update_waiters property (lines 114-118) of instance v
UpdateWaiters(v) == DictGet(all_update_waiters, ClassHash(ClassOf[v]), EmptyDict)

\* the __updates_cache_pool property (lines 120-124) of instance v
UpdatesCachePool(v) ==
    DictGet(all_updates_cache_pools, ClassHash(ClassOf[v]), EmptyDict)

\* commit_update on the view instance v (lines 126-138)
ClassCommitOutcome(v, k) ==
    IF k \in DOMAIN UpdateWaiters(v)
    THEN IF Done(futures[UpdateWaiters(v)[k]]) THEN "InvalidStateError" ELSE "sent"
    ELSE "cached"

ClassCommitUpdate(v, k, l) ==
    /\ Len(commits) < MaxCommits
    /\ LET d == Len(commits) + 1
           u == LabelledUpdate(l, d)
           outcome == ClassCommitOutcome(v, k)
       IN /\ futures' = IF outcome = "sent"
                        THEN SetResult(futures, UpdateWaiters(v)[k], u)
                        ELSE futures
          /\ all_update_waiters' =
                 DictSet(all_update_waiters, ClassHash(ClassOf[v]),
                         IF k \in DOMAIN UpdateWaiters(v)
                         THEN DictDel(UpdateWaiters(v), k)
                         ELSE UpdateWaiters(v))
          /\ all_updates_cache_pools' =
                 IF outcome = "cached"
                 THEN DictSet(all_updates_cache_pools, ClassHash(ClassOf[v]),
                              CacheAppend(UpdatesCachePool(v), k, u))
                 ELSE all_updates_cache_pools
          /\ commits' = Append(commits,
                               [key |-> k, label |-> l, payload |-> d,
                                update |-> u, outcome |-> outcome, view |-> v])
    /\ UNCHANGED <<waiters, cache_pools, callVars, pops, cview, nonClassVars>>

\* wait_update on the view instance v up to its await (lines 140-144)
ClassWaitUpdate(t, v, k) ==
    /\ CanStart(t)
    /\ fut' = [fut EXCEPT ![t] = Len(futures) + 1]
    /\ futures' = Append(futures, NewFuture)
    /\ all_update_waiters' =
           DictSet(all_update_waiters, ClassHash(ClassOf[v]),
                   DictSet(UpdateWaiters(v), k, Len(futures) + 1))
    /\ pc' = [pc EXCEPT ![t] = "suspended"]
    /\ kind' = [kind EXCEPT ![t] = "wait_update"]
    /\ ckey' = [ckey EXCEPT ![t] = k]
    /\ cview' = [cview EXCEPT ![t] = v]
    /\ UNCHANGED <<waiters, cache_pools, wake, update, data, commits, pops,
                   all_updates_cache_pools, nonClassVars>>

\* pop_cached_updates on the view instance v (lines 151-156)
ClassPopCachedUpdates(v, k) ==
    /\ Len(pops) < MaxPops
    /\ all_updates_cache_pools' =
           DictSet(all_updates_cache_pools, ClassHash(ClassOf[v]),
                   DictSet(UpdatesCachePool(v), k, <<>>))
    /\ pops' = Append(pops, [key |-> k,
                             result |-> DictGet(UpdatesCachePool(v), k, <<>>),
                             at |-> Len(commits), view |-> v])
    /\ UNCHANGED <<waiters, cache_pools, futures, callVars, commits,
                   all_update_waiters, cview, nonClassVars>>

\* the histories of at most MaxWideOps calls of commit_update, wait_update
\* and pop_cached_updates
NextClass ==
    \/ \E v \in Views, k \in Keys, l \in Labels :
          OpsUsed < MaxWideOps /\ ClassCommitUpdate(v, k, l)
    \/ \E t \in Calls, v \in Views, k \in Keys :
          OpsUsed < MaxWideOps /\ ClassWaitUpdate(t, v, k)
    \/ \E v \in Views, k \in Keys :
          OpsUsed < MaxWideOps /\ ClassPopCachedUpdates(v, k)
    \/ \E t \in Calls : Timeout(t)
    \/ \E t \in Calls : WaitUpdateCancel(t)
    \/ \E t \in Calls : WaitUpdateResume(t)
    \/ \E t \in Calls : WaitUpdateFinish(t)

SpecClass == Init /\ [][NextClass]_vars


\* ------------------------- index/views/messages.py perform_create
\* line 25: `await super().perform_create(serializer)` saves the message
CreateMessage(m) ==
    /\ mpc[m] = "idle"
    /\ \A n \in RowIds : n < m => mpc[n] # "idle"
    /\ mpc' = [mpc EXCEPT ![m] = "saved"]
    /\ UNCHANGED <<brokerVars, listVars, consumerVars, friendVars, classVars,
                   deleting>>

\* the orders in which members.all() can list the members of the chatroom
MemberOrders == {<<"alice", "bob">>, <<"bob", "alice">>}

\* one UpdateManager(username, label='message.create').commit(data), on the
\* futures, caches and log reached so far in the comprehension
FanCommit(st, k, m) ==
    LET u == LabelledUpdate("message.create", m)
        pending == k \in DOMAIN waiters /\ ~Done(st.futures[waiters[k]])
        outcome == IF k \in DOMAIN waiters
                   THEN IF pending THEN "sent" ELSE "InvalidStateError"
                   ELSE "cached"
    IN [futures |-> IF outcome = "sent"
                    THEN SetResult(st.futures, waiters[k], u)
                    ELSE st.futures,
        cache_pools |-> IF outcome = "cached"
                        THEN CacheAppend(st.cache_pools, k, u)
                        ELSE st.cache_pools,
        commits |-> Append(st.commits,
                           [key |-> k, label |-> "message.create",
                            payload |-> m, update |-> u, outcome |-> outcome,
                            waiting |-> Suspended(k), pending |-> pending]),
        raised |-> outcome = "InvalidStateError"]

\* lines 31-32: the list comprehension; an exception raised by a commit
\* ends it
RECURSIVE FanOutFrom(_, _, _)
FanOutFrom(st, names, m) ==
    IF names = <<>> \/ st.raised
    THEN st
    ELSE FanOutFrom(FanCommit(st, Head(names), m), Tail(names), m)

\* lines 26-32, after the members were read
FanOut(m, names) ==
    /\ mpc[m] = "saved"
    /\ LET st == FanOutFrom([futures |-> futures, cache_pools |-> cache_pools,
                             commits |-> commits, raised |-> FALSE], names, m)
       IN /\ futures' = st.futures
          /\ cache_pools' = st.cache_pools
          /\ commits' = st.commits
          /\ mpc' = [mpc EXCEPT ![m] = IF st.raised THEN "raised" ELSE "done"]
    /\ UNCHANGED <<waiters, callVars, pops, listVars, consumerVars, friendVars,
                   classVars, deleting>>

NextFanOut ==
    \/ \E m \in RowIds : CreateMessage(m)
    \/ \E m \in RowIds, names \in MemberOrders : FanOut(m, names)
    \/ \E t \in Calls, k \in AllKeys : NextCall(t, k)
    \/ \E t \in Calls : Timeout(t)
    \/ \E t \in Calls : CancelRequest(t)
    \/ \E t \in Calls : NextResume(t)
    \/ \E t \in Calls : NextFinish(t)

SpecFanOut == Init /\ [][NextFanOut]_vars

\* ------------------------------------- index/models.py Friendship
\* Friendship.symmetrical_object (lines 197-200)
SymmetricalObjects(fs, u, t) == {f \in fs : f.user = t /\ f.target = u}

\* the unique constraints of Friendship (user, target) and of
\* ChatroomMembership (user, chatroom)
FriendshipExists(fs, u, t) == \E f \in fs : f.user = u /\ f.target = t

MembershipExists(ms, u, c) == \E x \in ms : x.user = u /\ x.chatroom = c

\* Chatroom.objects.create(name='', creator=u, friendship_exclusive=True):
\* Chatroom.save (lines 62-77) adds the membership of the creator
NewChatroom(u) == [id |-> roomSeq + 1, creator |-> u, friendship_exclusive |-> TRUE]

CreatorMembership(u) == [user |-> u, chatroom |-> roomSeq + 1, is_manager |-> TRUE]

\* (mutant) the symmetrical row is not created
SymmetricalRowsNone(u, t) == {}

\* lines 230-236: the row of the other direction, with the same chatroom
SymmetricalRows(u, t) == {[user |-> t, target |-> u, chatroom |-> roomSeq + 1]}

\* Friendship.save of a new instance (no pk, chatroom not set) for user u
\* and target t, lines 205-236.  Every statement commits on its own, so
\* what was written before an IntegrityError stays.
FriendshipSaveRows(u, t) ==
    /\ roomSeq < MaxRooms
    /\ IF SymmetricalObjects(friendships, u, t) = {}
       THEN \* is_creation
            /\ roomSeq' = roomSeq + 1
            /\ chatrooms' = chatrooms \cup {NewChatroom(u)}
            /\ IF MembershipExists({CreatorMembership(u)}, t, roomSeq + 1)
               THEN \* the membership of the target breaks the constraint
                    /\ memberships' = memberships \cup {CreatorMembership(u)}
                    /\ raised' = "IntegrityError"
                    /\ UNCHANGED friendships
               ELSE /\ memberships' = memberships \cup
                         {CreatorMembership(u),
                          [user |-> t, chatroom |-> roomSeq + 1, is_manager |-> TRUE]}
                    /\ IF FriendshipExists(friendships, u, t)
                       THEN /\ raised' = "IntegrityError"
                            /\ UNCHANGED friendships
                       ELSE /\ friendships' = friendships \cup
                                 {[user |-> u, target |-> t, chatroom |-> roomSeq + 1]}
                                 \cup SymmetricalRows(u, t)
                            /\ raised' = "none"
       ELSE \* the row is inserted without a chatroom: NOT NULL fails
            /\ raised' = "IntegrityError"
            /\ UNCHANGED <<friendships, chatrooms, memberships, roomSeq>>

\* Friendship.objects.create(user=u, target=t) on its own
FriendshipSave(u, t) ==
    /\ FriendshipSaveRows(u, t)
    /\ UNCHANGED <<requests, created, nonFriendVars>>

\* Chatroom.delete: the rows that refer to the chatroom go with it (CASCADE)
WithoutChatroom(rowset, c) == {x \in rowset : x.chatroom # c}

\* ... and so do the membership requests for the chatroom (models.py
\* lines 144-145, on_delete=CASCADE)
CascadeRequests(reqs, c) ==
    [r \in ReqIds |->
        IF reqs[r].kind = "membership" /\ reqs[r].chatroom = c
           /\ reqs[r].state \in {"P", "A", "R"}
        THEN [reqs[r] EXCEPT !.state = "cascaded"]
        ELSE reqs[r]]

\* Friendship.delete of the row f, lines 238-245
FriendshipDelete(f) ==
    /\ f \in friendships
    /\ IF SymmetricalObjects(friendships \ {f}, f.user, f.target) # {}
       THEN /\ friendships' =
                 WithoutChatroom((friendships \ {f})
                                 \ SymmetricalObjects(friendships, f.user, f.target),
                                 f.chatroom)
            /\ chatrooms' = {c \in chatrooms : c.id # f.chatroom}
            /\ memberships' = WithoutChatroom(memberships, f.chatroom)
            /\ requests' = CascadeRequests(requests, f.chatroom)
       ELSE /\ friendships' = friendships \ {f}
            /\ UNCHANGED <<chatrooms, memberships, requests>>
    /\ raised' = "none"
    /\ UNCHANGED <<roomSeq, created, nonFriendVars>>

NextFriend ==
    \/ \E u, t \in People : FriendshipSave(u, t)
    \/ \E f \in friendships : FriendshipDelete(f)

SpecFriend == Init /\ [][NextFriend]_vars

\* ------------------ index/views.py, index/policies.py: the two requests
\* a request row that exists (get_object finds only these)
Exists(req) == req.state \in {"P", "A", "R"}

\* the primary key the next created request gets
NextReqId == CHOOSE r \in ReqIds :
                 /\ requests[r].state = "absent"
                 /\ \A q \in ReqIds : q < r => requests[q].state # "absent"

\* the chatrooms and the requests created so far
ObjectsUsed ==
    roomSeq + Cardinality({r \in ReqIds : requests[r].state # "absent"})

\* (mutant) the state is not looked at
state_is_any(req, value) == TRUE

\* public_access_conditions.state_is (lines 22-24)
state_is(req, value) == req.state = value

\* public_access_conditions.as_owner (lines 17-19)
as_owner(req, a) == a = req.user

\* FriendshipRequestAccessPolicy.as_target (policies.py lines 213-215)
as_target(req, a) == a = req.target

\* ChatroomMembershipRequestAccessPolicy.as_manager (policies.py lines 175-177)
as_manager(req, a) ==
    \E x \in memberships : x.chatroom = req.chatroom /\ x.user = a /\ x.is_manager

\* FriendshipRequestViewSet.get_queryset (views.py lines 213-217)
FriendshipRequestVisible(req, a) ==
    /\ req.kind = "friendship" /\ Exists(req)
    /\ (req.user = a \/ req.target = a)

\* the memberships of chatroom c
MembershipsOf(c) == {x \in memberships : x.chatroom = c}

\* ChatroomMembershipRequestViewSet.get_queryset (views.py lines 138-144):
\* the number of rows of the queryset that are the request req, for the
\* caller a.  `chatroom__memberships__in` joins the memberships of the
\* chatroom, inside an OR, so the join is a LEFT OUTER JOIN and the request
\* comes once for every membership row that passes the WHERE clause: every
\* membership of the chatroom when the caller is the user of the request
\* (once when the chatroom has none), the caller's manager membership
\* otherwise.
MembershipRequestRows(req, a) ==
    IF /\ req.kind = "membership" /\ Exists(req)
       /\ \E c \in chatrooms : c.id = req.chatroom /\ ~c.friendship_exclusive
    THEN IF req.user = a
         THEN IF MembershipsOf(req.chatroom) = {}
              THEN 1
              ELSE Cardinality(MembershipsOf(req.chatroom))
         ELSE Cardinality({x \in MembershipsOf(req.chatroom) :
                              x.user = a /\ x.is_manager})
    ELSE 0

\* GenericAPIView.get_object on that queryset ends with the request:
\* QuerySet.get finds exactly one row (no row is Http404)
MembershipRequestVisible(req, a) == MembershipRequestRows(req, a) = 1

\* ... or with MultipleObjectsReturned, which nothing catches (HTTP 500):
\* the conditions of the policy call get_object first, so neither they nor
\* the handler go on
MembershipRequestMultiple(req, a) == MembershipRequestRows(req, a) > 1

\* a handler of ChatroomMembershipRequestViewSet ended by that exception
MultipleObjectsReturned ==
    /\ raised' = "MultipleObjectsReturned"
    /\ UNCHANGED <<friendships, chatrooms, memberships, roomSeq, requests,
                   created, nonFriendVars>>

\* FriendshipRequestAccessPolicy.statements (policies.py lines 192-211)
FriendshipRequestPermitted(act, req, a) ==
    \/ act = "create"
    \/ act = "destroy" /\ state_is(req, "P") /\ as_owner(req, a)
    \/ act \in {"accept", "reject"} /\ state_is(req, "P") /\ as_target(req, a)

\* ChatroomMembershipRequestAccessPolicy.statements (policies.py lines 154-173)
MembershipRequestPermitted(act, req, a) ==
    \/ act = "create"
    \/ act \in {"accept", "reject"} /\ state_is(req, "P") /\ as_manager(req, a)
    \/ act = "destroy" /\ state_is(req, "P") /\ as_owner(req, a)

\* a pending request of the kind for the pair exists (the validators of the
\* serializers, and the unique constraints of the two models)
PendingFriendship(u, t) ==
    \E r \in ReqIds : /\ requests[r].kind = "friendship" /\ requests[r].state = "P"
                      /\ requests[r].user = u /\ requests[r].target = t

PendingMembership(u, c) ==
    \E r \in ReqIds : /\ requests[r].kind = "membership" /\ requests[r].state = "P"
                      /\ requests[r].user = u /\ requests[r].chatroom = c

\* POST friendship-requests/ by user a for target t: the serializer
\* (serializers.py lines 239-292) validates, sets user and state 'P'
FriendshipRequestCreate(a, t) ==
    /\ ObjectsUsed < MaxObjects
    /\ \E r \in ReqIds : requests[r].state = "absent"
    /\ FriendshipRequestPermitted("create", NoRequest, a)
    /\ t # a
    /\ ~PendingFriendship(t, a)
    /\ ~FriendshipExists(friendships, a, t)
    /\ ~PendingFriendship(a, t)
    /\ requests' = [requests EXCEPT ![NextReqId] =
                       [kind |-> "friendship", user |-> a, target |-> t,
                        chatroom |-> 0, state |-> "P"]]
    /\ raised' = "none"
    /\ UNCHANGED <<friendships, chatrooms, memberships, roomSeq, created,
                   nonFriendVars>>

\* FriendshipRequestViewSet.accept by user a (views.py lines 226-232):
\* create_friendship, then state 'A' is saved; an exception of
\* create_friendship ends the handler before the state is written
FriendshipRequestAccept(r, a) ==
    /\ ObjectsUsed < MaxObjects
    /\ FriendshipRequestVisible(requests[r], a)
    /\ FriendshipRequestPermitted("accept", requests[r], a)
    /\ FriendshipSaveRows(requests[r].user, requests[r].target)
    /\ IF raised' = "none"
       THEN /\ requests' = [requests EXCEPT ![r].state = "A"]
            /\ created' = [created EXCEPT ![r] = @ + 1]
       ELSE UNCHANGED <<requests, created>>
    /\ UNCHANGED nonFriendVars

\* FriendshipRequestViewSet.reject by user a (views.py lines 234-239)
FriendshipRequestReject(r, a) ==
    /\ FriendshipRequestVisible(requests[r], a)
    /\ FriendshipRequestPermitted("reject", requests[r], a)
    /\ requests' = [requests EXCEPT ![r].state = "R"]
    /\ raised' = "none"
    /\ UNCHANGED <<friendships, chatrooms, memberships, roomSeq, created,
                   nonFriendVars>>

\* DestroyModelMixin.destroy of FriendshipRequestViewSet by user a
FriendshipRequestDestroy(r, a) ==
    /\ FriendshipRequestVisible(requests[r], a)
    /\ FriendshipRequestPermitted("destroy", requests[r], a)
    /\ requests' = [requests EXCEPT ![r].state = "destroyed"]
    /\ raised' = "none"
    /\ UNCHANGED <<friendships, chatrooms, memberships, roomSeq, created,
                   nonFriendVars>>

\* POST chatrooms/ by user a: Chatroom.save (models.py lines 62-77) of a
\* chatroom that is not friendship-exclusive, with the creator's membership
ChatroomCreate(a) ==
    /\ ObjectsUsed < MaxObjects
    /\ roomSeq < MaxRooms
    /\ roomSeq' = roomSeq + 1
    /\ chatrooms' = chatrooms \cup
           {[id |-> roomSeq + 1, creator |-> a, friendship_exclusive |-> FALSE]}
    /\ memberships' = memberships \cup {CreatorMembership(a)}
    /\ raised' = "none"
    /\ UNCHANGED <<friendships, requests, created, nonFriendVars>>

\* POST chatroom-membership-requests/ by user a for chatroom c: the
\* serializer (serializers.py lines 128-168) validates, sets user and 'P'
MembershipRequestCreate(a, c) ==
    /\ ObjectsUsed < MaxObjects
    /\ \E r \in ReqIds : requests[r].state = "absent"
    /\ MembershipRequestPermitted("create", NoRequest, a)
    /\ \E x \in chatrooms : x.id = c
    /\ ~MembershipExists(memberships, a, c)
    /\ ~PendingMembership(a, c)
    /\ requests' = [requests EXCEPT ![NextReqId] =
                       [kind |-> "membership", user |-> a, target |-> "none",
                        chatroom |-> c, state |-> "P"]]
    /\ raised' = "none"
    /\ UNCHANGED <<friendships, chatrooms, memberships, roomSeq, created,
                   nonFriendVars>>

\* ChatroomMembershipRequestViewSet.accept by user a (views.py lines
\* 152-158): state 'A' is set on the instance, create_membership runs, then
\* the instance is saved; an exception of create_membership ends the
\* handler before the save
MembershipRequestAccept(r, a) ==
    IF MembershipRequestMultiple(requests[r], a)
    THEN MultipleObjectsReturned
    ELSE /\ MembershipRequestVisible(requests[r], a)
         /\ MembershipRequestPermitted("accept", requests[r], a)
         /\ IF MembershipExists(memberships, requests[r].user,
                                requests[r].chatroom)
            THEN /\ raised' = "IntegrityError"
                 /\ UNCHANGED <<memberships, requests, created>>
            ELSE /\ memberships' = memberships \cup
                        {[user |-> requests[r].user,
                          chatroom |-> requests[r].chatroom,
                          is_manager |-> FALSE]}
                 /\ requests' = [requests EXCEPT ![r].state = "A"]
                 /\ created' = [created EXCEPT ![r] = @ + 1]
                 /\ raised' = "none"
         /\ UNCHANGED <<friendships, chatrooms, roomSeq, nonFriendVars>>

\* ChatroomMembershipRequestViewSet.reject by user a (views.py lines 160-165)
MembershipRequestReject(r, a) ==
    IF MembershipRequestMultiple(requests[r], a)
    THEN MultipleObjectsReturned
    ELSE /\ MembershipRequestVisible(requests[r], a)
         /\ MembershipRequestPermitted("reject", requests[r], a)
         /\ requests' = [requests EXCEPT ![r].state = "R"]
         /\ raised' = "none"
         /\ UNCHANGED <<friendships, chatrooms, memberships, roomSeq, created,
                        nonFriendVars>>

\* DestroyModelMixin.destroy of ChatroomMembershipRequestViewSet by user a
MembershipRequestDestroy(r, a) ==
    IF MembershipRequestMultiple(requests[r], a)
    THEN MultipleObjectsReturned
    ELSE /\ MembershipRequestVisible(requests[r], a)
         /\ MembershipRequestPermitted("destroy", requests[r], a)
         /\ requests' = [requests EXCEPT ![r].state = "destroyed"]
         /\ raised' = "none"
         /\ UNCHANGED <<friendships, chatrooms, memberships, roomSeq, created,
                        nonFriendVars>>

\* ------------- ChatroomViewSet and ChatroomMembershipViewSet (views.py)
\* ChatroomAccessPolicy.as_creator, is_exclusive (policies.py lines 93-95,
\* 101-103; is_exclusive of ChatroomMembershipAccessPolicy, lines 134-136,
\* reads the same field of the chatroom of the membership)
as_creator(c, a) == a = c.creator

is_exclusive(c) == c.friendship_exclusive

\* ChatroomAccessPolicy.statements (policies.py lines 66-91) for destroy:
\* allowed to the creator, denied on a friendship-exclusive chatroom
ChatroomPermitted(act, c, a) ==
    /\ act = "destroy" /\ as_creator(c, a)
    /\ ~(act = "destroy" /\ is_exclusive(c))

\* ModelViewSet.destroy of ChatroomViewSet (views.py lines 64-71) by user
\* a: the memberships, the membership requests and the friendships that
\* refer to the chatroom go with it (on_delete=CASCADE).  update and
\* partial_update write `name` only (creator and friendship_exclusive are
\* read-only fields of the serializer), which no variable holds.
ChatroomDestroy(c, a) ==
    /\ c \in chatrooms
    /\ ChatroomPermitted("destroy", c, a)
    /\ chatrooms' = chatrooms \ {c}
    /\ memberships' = WithoutChatroom(memberships, c.id)
    /\ friendships' = WithoutChatroom(friendships, c.id)
    /\ requests' = CascadeRequests(requests, c.id)
    /\ raised' = "none"
    /\ UNCHANGED <<roomSeq, created, nonFriendVars>>

\* the chatroom of membership x
ChatroomOf(x) == CHOOSE c \in chatrooms : c.id = x.chatroom

\* ChatroomMembership.level (models.py lines 121-128)
level(x) ==
    IF ~x.is_manager THEN 0
    ELSE IF ChatroomOf(x).creator # x.user THEN 1
    ELSE 2

\* ChatroomMembershipViewSet.get_queryset (views.py lines 98-101): the
\* memberships of the chatrooms the caller is a member of
MembershipVisible(x, a) ==
    /\ x \in memberships
    /\ MembershipExists(memberships, a, x.chatroom)

\* ChatroomMembershipAccessPolicy.level_comparison with 'gt' (policies.py
\* lines 138-150)
level_comparison_gt(x, a) ==
    /\ MembershipExists(memberships, a, x.chatroom)
    /\ LET own == CHOOSE o \in memberships :
                      o.user = a /\ o.chatroom = x.chatroom
       IN level(own) > level(x)

\* ChatroomMembershipAccessPolicy.statements (policies.py lines 107-132)
MembershipPermitted(act, x, a) ==
    /\ \/ act \in {"destroy", "update", "partial_update", "read"}
          /\ as_owner(x, a)
       \/ act \in {"destroy", "promote", "demote"} /\ level_comparison_gt(x, a)
    /\ ~(act \in {"destroy", "promote", "demote"} /\ is_exclusive(ChatroomOf(x)))

\* instance.is_manager = value; instance.save()
WithManager(x, value) ==
    (memberships \ {x}) \cup {[x EXCEPT !.is_manager = value]}

\* ChatroomMembershipViewSet.promote by user a (views.py lines 103-108)
MembershipPromote(x, a) ==
    /\ MembershipVisible(x, a)
    /\ MembershipPermitted("promote", x, a)
    /\ memberships' = WithManager(x, TRUE)
    /\ raised' = "none"
    /\ UNCHANGED <<friendships, chatrooms, roomSeq, requests, created,
                   nonFriendVars>>

\* ChatroomMembershipViewSet.demote by user a (views.py lines 110-115)
MembershipDemote(x, a) ==
    /\ MembershipVisible(x, a)
    /\ MembershipPermitted("demote", x, a)
    /\ memberships' = WithManager(x, FALSE)
    /\ raised' = "none"
    /\ UNCHANGED <<friendships, chatrooms, roomSeq, requests, created,
                   nonFriendVars>>

\* DestroyModelMixin.destroy of ChatroomMembershipViewSet by user a
MembershipDestroy(x, a) ==
    /\ MembershipVisible(x, a)
    /\ MembershipPermitted("destroy", x, a)
    /\ memberships' = memberships \ {x}
    /\ raised' = "none"
    /\ UNCHANGED <<friendships, chatrooms, roomSeq, requests, created,
                   nonFriendVars>>

\* the handlers of the two kinds of request, of the chatrooms and of the
\* memberships: friendship requests are made between the two users of
\* Users, who also create the chatrooms; every user of People asks for
\* memberships and calls the handlers of the memberships and of their
\* requests.  The histories explored create at most MaxObjects chatrooms
\* and requests.
NextRequest ==
    \/ \E a, t \in Users : FriendshipRequestCreate(a, t)
    \/ \E r \in ReqIds, a \in Users : FriendshipRequestAccept(r, a)
    \/ \E r \in ReqIds, a \in Users : FriendshipRequestReject(r, a)
    \/ \E r \in ReqIds, a \in Users : FriendshipRequestDestroy(r, a)
    \/ \E a \in Users : ChatroomCreate(a)
    \/ \E c \in chatrooms, a \in People : ChatroomDestroy(c, a)
    \/ \E a \in People, c \in 1..MaxRooms : MembershipRequestCreate(a, c)
    \/ \E r \in ReqIds, a \in People : MembershipRequestAccept(r, a)
    \/ \E r \in ReqIds, a \in People : MembershipRequestReject(r, a)
    \/ \E r \in ReqIds, a \in People : MembershipRequestDestroy(r, a)
    \/ \E x \in memberships, a \in People : MembershipPromote(x, a)
    \/ \E x \in memberships, a \in People : MembershipDemote(x, a)
    \/ \E x \in memberships, a \in People : MembershipDestroy(x, a)
    \/ \E f \in friendships : FriendshipDelete(f)

SpecRequest == Init /\ [][NextRequest]_vars

\* -------------------------------------------- index/consumers.py
\* An instance as the conditions read it: `user` is instance.user (for a
\* Message, instance.sender_membership.user), `target` is instance.target.
\* All memberships are those of one chatroom.
Instances == [user : Users, target : Users]

\* (mutant) the Message condition does not look at the memberships
ConditionSenderOnly(model, inst, event, u, mem) ==
    CASE model = "Message" ->
           inst.user # u
      [] model = "FriendshipRequest" ->
           event # "update" /\ inst.target = u
      [] model = "ChatroomMembershipRequest" ->
           /\ (event # "update" \/ inst.user # u)
           /\ (inst.user = u \/ (u \in DOMAIN mem /\ mem[u]))
      [] model = "Friendship" ->
           inst.user = u
      [] model = "ChatroomMembership" ->
           inst.user = u \/ u \in DOMAIN mem

\* lines 42-46, 51-53, 58-66, 71-72, 77-81: the condition of each
\* subscription, for the connection of user u; mem is the membership table
\* at the time the signal is sent
Condition(model, inst, event, u, mem) ==
    CASE model = "Message" ->
           inst.user # u /\ u \in DOMAIN mem
      [] model = "FriendshipRequest" ->
           event # "update" /\ inst.target = u
      [] model = "ChatroomMembershipRequest" ->
           /\ (event # "update" \/ inst.user # u)
           /\ (inst.user = u \/ (u \in DOMAIN mem /\ mem[u]))
      [] model = "Friendship" ->
           inst.user = u
      [] model = "ChatroomMembership" ->
           inst.user = u \/ u \in DOMAIN mem

\* lines 87-103: the receivers connected for the sender model run; each one
\* whose condition holds calls self.send
Receiving(model, inst, event, mem) ==
    {rc \in receivers : /\ rc.model = model
                        /\ Condition(model, inst, event, cuser[rc.conn], mem)}

Sent(model, inst, event, mem) ==
    {[conn |-> rc.conn, user |-> cuser[rc.conn], model |-> model,
      event |-> event, inst |-> inst,
      live |-> conn[rc.conn] = "open",
      member |-> cuser[rc.conn] \in DOMAIN mem] :
        rc \in Receiving(model, inst, event, mem)}

\* lines 105-106: signal.connect(receiver, sender=model) on post_save and
\* post_delete, for the five subscriptions of connect
Subscribed(c) == {[conn |-> c, model |-> m] : m \in Models}

\* (mutant) the anonymous user is accepted and subscribed like any other
ConnectAcceptsAll(u) == TRUE

\* line 33: `if self.scope['user'].is_anonymous`
ConnectAccepts(u) == u # Anonymous

\* lines 32-84
Connect(c, u) ==
    /\ conn[c] = "new"
    /\ \A b \in Conns : b < c => conn[b] # "new"
    /\ cuser' = [cuser EXCEPT ![c] = u]
    /\ IF ConnectAccepts(u)
       THEN /\ conn' = [conn EXCEPT ![c] = "open"]
            /\ receivers' = receivers \cup Subscribed(c)
       ELSE /\ conn' = [conn EXCEPT ![c] = "closed"]
            /\ UNCHANGED receivers
    /\ UNCHANGED <<members, lastSent, deletedRows, nonConsumerVars>>

\* the websocket goes away (close, error, client gone): UpdateConsumer has
\* no disconnect method and nothing disconnects the receivers
Disconnect(c) ==
    /\ conn[c] = "open"
    /\ conn' = [conn EXCEPT ![c] = "ended"]
    /\ UNCHANGED <<cuser, receivers, members, lastSent, deletedRows,
                   nonConsumerVars>>

\* the signals hold the receivers weakly, and the consumer holds them in
\* self.signal_receivers (line 39) while each receiver holds the consumer in
\* its closure (line 103): the receivers of an ended connection live until
\* the cycle collector of the interpreter frees the consumer
Collect(c) ==
    /\ conn[c] = "ended"
    /\ receivers \cap Subscribed(c) # {}
    /\ receivers' = receivers \ Subscribed(c)
    /\ UNCHANGED <<conn, cuser, members, lastSent, deletedRows,
                   nonConsumerVars>>

\* The handlers that write rows run one at a time: the signals of a
\* Chatroom.delete() are sent before the next one starts.
\* post_save of a ChatroomMembership of the chatroom
SaveMembership(u, manager) ==
    /\ deletedRows = {}
    /\ members' = DictSet(members, u, manager)
    /\ lastSent' = Sent("ChatroomMembership", [user |-> u, target |-> u],
                        IF u \in DOMAIN members THEN "update" ELSE "create",
                        members')
    /\ UNCHANGED <<conn, cuser, receivers, deletedRows, nonConsumerVars>>

\* models.py 279-280, sender_membership on_delete=CASCADE: the messages
\* left when the membership of user u is deleted
SentByOthers(msgs, u) ==
    [m \in {x \in DOMAIN msgs : msgs[x] # u} |-> msgs[m]]

\* a ChatroomMembership of the chatroom is deleted on its own
\* (ChatroomMembershipViewSet.destroy): the messages it sent go with it,
\* then its post_delete runs
DeleteMembership(u) ==
    /\ deletedRows = {}
    /\ u \in DOMAIN members
    /\ members' = DictDel(members, u)
    /\ rows' = SentByOthers(rows, u)
    /\ lastSent' = Sent("ChatroomMembership", [user |-> u, target |-> u],
                        "delete", members')
    /\ UNCHANGED <<conn, cuser, receivers, deletedRows, listCallVars,
                   nonRowVars>>

\* Chatroom.delete() (ChatroomViewSet.destroy, or Friendship.delete through
\* self.chatroom.delete()): the collector deletes the rows model by model,
\* the messages before the memberships they refer to, and sends the
\* post_delete signals of a model after the one DELETE statement that
\* removes its rows.  This is the DELETE of the message rows and of the
\* membership rows: when the signals of the memberships run none of them
\* is left.  (The post_delete signals of the messages come before the
\* DELETE of the memberships, as MessageSignal steps.)  The chatroom the
\* table then stands for is one created later.
DeleteChatroom ==
    /\ deletedRows = {}
    /\ DOMAIN members # {}
    /\ members' = EmptyDict
    /\ rows' = EmptyDict
    /\ deletedRows' = DOMAIN members
    /\ UNCHANGED <<conn, cuser, receivers, lastSent, listCallVars,
                   nonRowVars>>

\* post_delete of the membership row of user u that Chatroom.delete()
\* deleted with the others
CascadeSignal(u) ==
    /\ u \in deletedRows
    /\ deletedRows' = deletedRows \ {u}
    /\ lastSent' = Sent("ChatroomMembership", [user |-> u, target |-> u],
                        "delete", members)
    /\ UNCHANGED <<conn, cuser, receivers, members, nonConsumerVars>>

\* post_save or post_delete of a Message of the chatroom sent by member u
MessageSignal(u, event) ==
    /\ deletedRows = {}
    /\ u \in DOMAIN members
    /\ lastSent' = Sent("Message", [user |-> u, target |-> u], event, members)
    /\ UNCHANGED <<conn, cuser, receivers, members, deletedRows,
                   nonConsumerVars>>

\* post_save or post_delete of a FriendshipRequest, a Friendship or a
\* ChatroomMembershipRequest
RelationSignal(model, inst, event) ==
    /\ deletedRows = {}
    /\ lastSent' = Sent(model, inst, event, members)
    /\ UNCHANGED <<conn, cuser, receivers, members, deletedRows,
                   nonConsumerVars>>

NextConsumer ==
    \/ \E c \in Conns, u \in Users \cup {Anonymous} : Connect(c, u)
    \/ \E c \in Conns : Disconnect(c)
    \/ \E c \in Conns : Collect(c)
    \/ \E u \in Users, manager \in BOOLEAN : SaveMembership(u, manager)
    \/ \E u \in Users : DeleteMembership(u)
    \/ DeleteChatroom
    \/ \E u \in Users : CascadeSignal(u)
    \/ \E u \in Users, event \in Events : MessageSignal(u, event)
    \/ \E model \in {"FriendshipRequest", "Friendship",
                      "ChatroomMembershipRequest"},
          inst \in Instances, event \in Events :
            RelationSignal(model, inst, event)

SpecConsumer == Init /\ [][NextConsumer]_vars

\* the connections, the memberships of the chatroom and its messages only
NextMessagePush ==
    \/ \E c \in Conns, u \in Users \cup {Anonymous} : Connect(c, u)
    \/ \E c \in Conns : Disconnect(c)
    \/ \E c \in Conns : Collect(c)
    \/ \E u \in Users, manager \in BOOLEAN : SaveMembership(u, manager)
    \/ \E u \in Users : DeleteMembership(u)
    \/ DeleteChatroom
    \/ \E u \in Users : CascadeSignal(u)
    \/ \E u \in Users, event \in Events : MessageSignal(u, event)

SpecMessagePush == Init /\ [][NextMessagePush]_vars

\* ---------------------- index/views/messages.py MessageAPIViewSet (list)
\* the ids of a set of rows in ascending order (order_by('id'))
RECURSIVE OrderById(_)
OrderById(S) ==
    IF S = {} THEN <<>>
    ELSE LET m == CHOOSE x \in S : \A y \in S : x <= y
         IN <<m>> \o OrderById(S \ {m})

\* lines 18-22: the messages of the chatrooms user u is a member of, in
\* the order of their ids; msgs are the messages of the chatroom and mem is
\* its membership table
get_queryset(u, msgs, mem) ==
    IF u \in DOMAIN mem THEN OrderById(DOMAIN msgs) ELSE <<>>

\* GET of the list by user u (ListModelMixin.list): the queryset is read
\* once and the response is given with what it holds, also when it is
\* empty; the handler has no wait, no subscription and no timeout
ListRequest(r, u) ==
    /\ lpc[r] = "idle"
    /\ deletedRows = {}
    /\ luser' = [luser EXCEPT ![r] = u]
    /\ response' = [response EXCEPT ![r] = get_queryset(u, rows, members)]
    /\ lpc' = [lpc EXCEPT ![r] = "done"]
    /\ UNCHANGED <<rows, rowSeq, nonListVars>>

\* line 25: the message of a create request by member u is saved in the
\* chatroom, with the next id
InsertRow(m, u) ==
    /\ deletedRows = {}
    /\ m = rowSeq + 1
    /\ u \in DOMAIN members
    /\ rows' = DictSet(rows, m, u)
    /\ rowSeq' = m
    /\ UNCHANGED <<lpc, luser, response, nonListVars>>

\* list requests of the two users, messages created in the chatroom, users
\* who join it or leave it, and the deletion of the chatroom
NextList ==
    \/ \E r \in Requests, u \in Users : ListRequest(r, u)
    \/ \E m \in RowIds, u \in Users : InsertRow(m, u)
    \/ \E u \in Users, manager \in BOOLEAN : SaveMembership(u, manager)
    \/ \E u \in Users : DeleteMembership(u)
    \/ DeleteChatroom
    \/ \E u \in Users : CascadeSignal(u)

SpecList == Init /\ [][NextList]_vars

\* ------------------------------------------------------- history helpers
Range(q) == {q[i] : i \in 1..Len(q)}

CommitIds == 1..Len(commits)

PopIds == 1..Len(pops)

\* the call went through UpdateManager.next and has returned
Returned(t) == pc[t] = "done" /\ fut[t] # 0

\* u was returned by a next call on k
Delivered(u, k) == \E t \in Calls : Returned(t) /\ ckey[t] = k /\ update[t] = u

\* u is in the cache of k
Cached(u, k) == k \in DOMAIN cache_pools /\ u \in Range(cache_pools[k])

\* u was returned by a pop_caches call on k
Popped(u, k) == \E j \in PopIds : pops[j].key = k /\ u \in Range(pops[j].result)

\* u is the result of a future that a suspended next call on k will return
Arriving(u, k) ==
    \E t \in Calls : /\ pc[t] = "suspended" /\ ckey[t] = k
                     /\ futures[fut[t]].state = "FINISHED"
                     /\ futures[fut[t]].result = u

\* the commits for k numbered in (lo, hi], in commit order
RECURSIVE CommitsBetween(_, _, _)
CommitsBetween(k, lo, hi) ==
    IF hi <= lo THEN <<>>
    ELSE LET rest == CommitsBetween(k, lo, hi - 1)
         IN IF commits[hi].key = k THEN Append(rest, hi) ELSE rest

\* the number of commits that preceded the last pop_caches on pops[j].key
\* that had returned when pops[j] started (0 when there was none)
PrevPopAt(j) ==
    LET before == {i \in PopIds : i <= pops[j].began /\ pops[i].key = pops[j].key}
    IN IF before = {} THEN 0
       ELSE pops[CHOOSE i \in before : \A x \in before : x <= i].at

\* the commits for the key of pops[j] since the previous pop_caches on it
SincePrevPop(j) == CommitsBetween(pops[j].key, PrevPopAt(j), pops[j].at)

UpdatesOf(ids) == [n \in 1..Len(ids) |-> commits[ids[n]].update]

\* ------------------------------------------------------------------ claims

\* C1: every update passed to commit is returned by a next call on its key,
\* is in the cache of its key, was returned by a pop_caches call, or is the
\* result of the future a suspended next call is about to return; no commit
\* ends with its update neither delivered nor cached.
C1_NoUpdateLost ==
    \A i \in CommitIds :
        LET u == commits[i].update
            k == commits[i].key
        IN Delivered(u, k) \/ Cached(u, k) \/ Popped(u, k) \/ Arriving(u, k)

\* pop_caches call p started before pop_caches call j (two calls that
\* started with the same number of returned calls overlap: the one that
\* returns last is the DELETE that was under way when the other started)
StartedBefore(p, j) ==
    \/ pops[p].began < pops[j].began
    \/ pops[p].began = pops[j].began /\ p > j

\* pops[j] is the pop_caches call that follows commit i: the first call on
\* the key of the commit to start after the commit
FollowingPop(i, j) ==
    /\ pops[j].key = commits[i].key
    /\ pops[j].readAt >= i
    /\ \A p \in PopIds :
          (p # j /\ pops[p].key = commits[i].key /\ pops[p].readAt >= i)
          => StartedBefore(j, p)

\* the commits that pops[j] follows, in commit order
FollowedBy(j) ==
    LET Follows(i) == FollowingPop(i, j)
    IN SelectSeq([n \in 1..Len(commits) |-> n], Follows)

\* C2: when the commits for key k that a pop_caches call follows were all
\* made while no next call for k was suspended, and there is at least one,
\* the pop_caches call returns exactly those updates in commit order.
C2_QuietCommitsPoppedInOrder ==
    \A j \in PopIds :
        LET ids == FollowedBy(j)
        IN (ids # <<>> /\ \A n \in 1..Len(ids) : commits[ids[n]].waiting = {})
           => pops[j].result = UpdatesOf(ids)

\* C3: a next call that was suspended on key k when commit(k, u) was called
\* returns u, and u is neither put in the cache of k nor returned by a
\* pop_caches on k.
C3_SuspendedNextGetsUpdate ==
    \A i \in CommitIds :
        LET u == commits[i].update
            k == commits[i].key
        IN commits[i].waiting # {}
           => /\ \A t \in commits[i].waiting : Returned(t) => update[t] = u
              /\ ~Cached(u, k)
              /\ ~Popped(u, k)

\* C4: commit never raises, whatever the state of the waiter table.
C4_CommitNeverFails ==
    \A i \in CommitIds : commits[i].outcome # "InvalidStateError"

\* C5: a next call whose timeout expires while no commit was made for its key
\* returns None, and the waiter table has no entry for the key when it
\* returns.
C5_TimeoutReturnsNoneAndCleans ==
    [][\A t \in Calls :
          (/\ InFlight(t) /\ pc'[t] = "done"
           /\ wake[t] = "timeout"
           /\ \A i \in CommitIds : commits[i].key # ckey[t])
          => (update'[t] = None /\ ckey[t] \notin DOMAIN waiters')]_vars

C5_Witness ==
    \E t \in Calls :
        /\ Returned(t) /\ wake[t] = "timeout" /\ update[t] = None
        /\ \A i \in CommitIds : commits[i].key # ckey[t]
        /\ ckey[t] \notin DOMAIN waiters

\* C6: whenever a next call returns (handle resolved, timeout, cancellation
\* of the calling request) the waiter table has no entry for its key.
C6_EntryRemovedOnEveryExit ==
    [][\A t \in Calls :
          (InFlight(t) /\ pc'[t] = "done") => ckey[t] \notin DOMAIN waiters']_vars

C6_Witness ==
    \E a, b \in Calls :
        /\ Returned(a) /\ update[a] # None
        /\ Returned(b) /\ wake[b] = "cancel" /\ update[b] = None
        /\ ckey[a] \notin DOMAIN waiters
        /\ ckey[b] \notin DOMAIN waiters

\* C7: two overlapping next calls on a key share one handle, and when a
\* single commit is made for the key while both are suspended, both return
\* the committed update.
C7_OverlapBothGetUpdate ==
    \A i \in CommitIds :
        \A a, b \in commits[i].waiting :
            (a # b /\ \A x \in CommitIds : commits[x].key = commits[i].key => x = i)
            => /\ fut[a] = fut[b]
               /\ (Returned(a) /\ Returned(b))
                  => (update[a] = commits[i].update /\ update[b] = commits[i].update)

\* C8: a pop_caches on a key with no commit for the key since the last
\* pop_caches on it that returned before this one started, or since the
\* start when there was none, returns the empty list.
C8_SecondPopEmpty ==
    \A j \in PopIds : SincePrevPop(j) = <<>> => pops[j].result = <<>>

C8_Witness ==
    \E i, j \in PopIds :
        /\ i <= pops[j].began /\ pops[i].key = pops[j].key
        /\ pops[i].result # <<>>
        /\ pops[i].at = pops[j].at
        /\ pops[j].result = <<>>

\* C9: on a key that is polled through UpdateAPIView.get only, every update
\* committed for the key is in the data returned by a GET, is in the cache
\* for the next GET (or was dropped from it by a DELETE), or is the result a
\* waiting GET is about to return.
C9_NoLostWakeup ==
    \A i \in CommitIds :
        LET u == commits[i].update
            k == commits[i].key
        IN (\A t \in Calls : (pc[t] # "idle" /\ ckey[t] = k) => kind[t] = "get")
           => \/ \E t \in Calls : /\ pc[t] = "done" /\ kind[t] = "get"
                                   /\ ckey[t] = k /\ u \in Range(data[t])
              \/ Cached(u, k)
              \/ Popped(u, k)
              \/ Arriving(u, k)

\* C10: a GET on a key whose cache is not empty returns at once the cached
\* updates in commit order, leaves the waiter table unchanged and leaves
\* the cache of the key empty.
C10_GetReturnsCache ==
    [][\A t \in Calls :
          (/\ pc[t] = "idle" /\ pc'[t] # "idle" /\ kind'[t] = "get"
           /\ ckey'[t] \in DOMAIN cache_pools
           /\ cache_pools[ckey'[t]] # <<>>)
          => /\ pc'[t] = "done"
             /\ data'[t] = cache_pools[ckey'[t]]
             /\ \A n \in 1..(Len(data'[t]) - 1) :
                    data'[t][n].data < data'[t][n + 1].data
             /\ waiters' = waiters
             /\ futures' = futures
             /\ cache_pools'[ckey'[t]] = <<>>]_vars

C10_Witness ==
    \E t \in Calls :
        /\ pc[t] = "done" /\ kind[t] = "get" /\ fut[t] = 0
        /\ Len(data[t]) = 2
        /\ cache_pools[ckey[t]] = <<>>
        /\ \E s \in Calls : s # t /\ InFlight(s) /\ ckey[s] = ckey[t]

\* C11: a GET that found the cache empty and waited returns at most one
\* update; it returns [update] when a commit for its key was made while it
\* was waiting and its timeout had not expired (nor its request been
\* cancelled), and [] when its timeout expired with no commit made for the
\* key while it was waiting.
C11_GetWaitsForOneEvent ==
    \A t \in Calls :
        (Returned(t) /\ kind[t] = "get")
        => /\ Len(data[t]) <= 1
           /\ (wake[t] = "none" /\ \E i \in CommitIds : t \in commits[i].waiting)
              => \E i \in CommitIds : /\ commits[i].key = ckey[t]
                                      /\ data[t] = <<commits[i].update>>
           /\ (wake[t] = "timeout" /\ \A i \in CommitIds : t \notin commits[i].waiting)
              => data[t] = <<>>

\* u was committed for key k before pops[j] replaced the list of the key
CachedBefore(u, k, j) ==
    \E i \in CommitIds : i <= pops[j].at /\ commits[i].key = k /\ commits[i].update = u

\* C12: the updates cached for the key before a DELETE has cleared it are
\* not in the cache afterwards until committed again, and are returned by
\* no pop_caches call, hence no GET, that starts after the DELETE returned;
\* both steps of the DELETE hand no update to any call and leave the waiter
\* table and the futures unchanged (also with a call suspended on the
\* key), and the DELETE leaves the cache of the key empty.
C12_DeleteDiscardsCache ==
    /\ [](\A j \in PopIds :
            pops[j].discarded
            => /\ \A i \in PopIds :
                     (pops[i].began >= j /\ pops[i].key = pops[j].key)
                     => \A u \in Range(pops[i].result) :
                            ~CachedBefore(u, pops[j].key, j)
               /\ \A u \in Range(DictGet(cache_pools, pops[j].key, <<>>)) :
                     ~CachedBefore(u, pops[j].key, j))
    /\ [][((deleting = NoDelete) # (deleting' = NoDelete))
          => /\ waiters' = waiters
             /\ futures' = futures
             /\ callVars' = callVars
             /\ deleting' = NoDelete
                => /\ pops'[Len(pops')].discarded
                   /\ pops'[Len(pops')].key \in DOMAIN cache_pools'
                   /\ cache_pools'[pops'[Len(pops')].key] = <<>>]_vars

\* a DELETE drained a cache that was not empty, and the GET that started
\* after it found nothing and waits, its waiter in the table
C12_Witness ==
    \E j \in PopIds :
        /\ pops[j].discarded
        /\ pops[j].result # <<>>
        /\ \E i \in PopIds : /\ pops[i].began >= j /\ pops[i].key = pops[j].key
                              /\ pops[i].result = <<>>
        /\ pops[j].key \in DOMAIN waiters
        /\ \E t \in Calls : /\ InFlight(t) /\ kind[t] = "get"
                             /\ ckey[t] = pops[j].key

\* C13: every entry of the waiter table holds a pending handle: a handle is
\* removed from the table in the step that resolves or cancels it.
C13_TableHoldsPendingOnly ==
    \A k \in DOMAIN waiters : futures[waiters[k]].state = "PENDING"

\* C14: with next called by UpdateAPIView.get only, no key has at once a
\* pending waiter in the waiter table and a non-empty cache, and an update
\* committed while a pending waiter was in the table is never in the cache.
C14_WaiterXorCache ==
    /\ \A k \in Keys :
          PendingWaiter(k) => (k \notin DOMAIN cache_pools \/ cache_pools[k] = <<>>)
    /\ \A i \in CommitIds :
          commits[i].pending
          => /\ ~Cached(commits[i].update, commits[i].key)
             /\ ~Popped(commits[i].update, commits[i].key)

C14_Witness ==
    \E i, j \in CommitIds :
        /\ commits[i].pending
        /\ commits[j].outcome = "cached"
        /\ commits[i].key = commits[j].key
        /\ \E t \in Calls : pc[t] = "done" /\ data[t] = <<commits[i].update>>

\* C15: a next call returns None only if its own timeout expired or its own
\* request was cancelled; the timeout or cancellation of an overlapping call
\* on the key does not make it return None.
C15_NoneOnlyOnOwnTimeout ==
    \A t \in Calls : (Returned(t) /\ update[t] = None) => wake[t] # "none"

\* C16 (as claimed): the maps hold only keys in use: no key of the cache map
\* has an empty list, and every key of the waiter table has a call in flight.
C16_KeysCollected ==
    /\ \A k \in DOMAIN cache_pools : cache_pools[k] # <<>>
    /\ \A k \in DOMAIN waiters : Suspended(k) # {}

\* C16 (amended): the waiter table holds only keys with a next call in
\* flight, so none once the calls on the key have returned; the cache map
\* keeps the key after pop_caches, with the empty list: a key popped once
\* stays in the cache map, and an empty list in it is left by pop_caches.
C16_KeysKeptByPop ==
    /\ \A k \in DOMAIN waiters : Suspended(k) # {}
    /\ \A j \in PopIds : pops[j].key \in DOMAIN cache_pools
    /\ \A k \in DOMAIN cache_pools :
          cache_pools[k] = <<>> => \E j \in PopIds : pops[j].key = k

C16_Witness ==
    \E k \in DOMAIN cache_pools :
        /\ cache_pools[k] = <<>>
        /\ k \notin DOMAIN waiters
        /\ \E t \in Calls : Returned(t) /\ ckey[t] = k
        /\ \E i \in CommitIds : commits[i].key = k /\ commits[i].outcome = "cached"

\* C17: under a fair timer and scheduler every suspended next call
\* eventually returns, and when no next call is in flight the waiter table
\* is empty.
C17_NextEventuallyReturns ==
    /\ \A t \in Calls : (pc[t] = "suspended") ~> (pc[t] = "done")
    /\ []((\A t \in Calls : ~InFlight(t)) => DOMAIN waiters = {})

C17_Witness ==
    /\ \A t \in Calls : Returned(t)
    /\ \E t \in Calls : wake[t] = "timeout" /\ update[t] = None
    /\ \E t \in Calls : update[t] # None
    /\ DOMAIN waiters = {}

\* an operation on key k is made in this step: a commit, a pop_caches, or a
\* step of a next or get call on k
StepOnKey(k) ==
    \/ Len(commits') > Len(commits) /\ commits'[Len(commits')].key = k
    \/ Len(pops') > Len(pops) /\ pops'[Len(pops')].key = k
    \/ \E t \in Calls : pc'[t] # pc[t] /\ ckey'[t] = k

\* the entries of k in the two maps, with their presence
WaiterEntry(w, k) == IF k \in DOMAIN w THEN w[k] ELSE 0

CacheEntry(c, k) == IF k \in DOMAIN c THEN <<TRUE, c[k]>> ELSE <<FALSE, <<>>>>

\* the key update u was committed for
CommittedFor(u, k) == u.data \in CommitIds /\ commits[u.data].key = k

\* C18: a step changes the waiter entry, the cache and the futures of a key
\* only if it is an operation on that key, and an update is returned by
\* next, get and pop_caches only for the key it was committed for.
C18_KeysAreIndependent ==
    /\ [](/\ \A t \in Calls :
               /\ (Returned(t) /\ update[t] # None) => CommittedFor(update[t], ckey[t])
               /\ \A u \in Range(data[t]) : CommittedFor(u, ckey[t])
          /\ \A j \in PopIds :
               \A u \in Range(pops[j].result) : CommittedFor(u, pops[j].key)
          /\ \A k \in DOMAIN cache_pools :
               \A u \in Range(cache_pools[k]) : CommittedFor(u, k))
    /\ [][/\ \A k \in AllKeys :
               (\/ WaiterEntry(waiters, k) # WaiterEntry(waiters', k)
                \/ CacheEntry(cache_pools, k) # CacheEntry(cache_pools', k))
               => StepOnKey(k)
          /\ \A h \in DOMAIN futures :
               futures'[h] # futures[h]
               => \E t \in Calls : fut[t] = h /\ StepOnKey(ckey[t])]_vars

C18_Witness ==
    /\ "alice" \in DOMAIN waiters
    /\ \E t \in Calls : pc[t] = "suspended" /\ ckey[t] = "alice"
                         /\ ~Done(futures[fut[t]])
    /\ \E i \in CommitIds : commits[i].key = "bob"
    /\ \E j \in PopIds : pops[j].key = "bob" /\ pops[j].result # <<>>
    /\ \E t \in Calls : Returned(t) /\ ckey[t] = "bob"

\* C19: every update a consumer receives, from next, from get or from
\* pop_caches, is the pair of the label and the payload of a commit made
\* for the same key.
IsCommitted(u, k) ==
    \E i \in CommitIds : /\ commits[i].key = k
                          /\ u.label = commits[i].label
                          /\ u.data = commits[i].payload

C19_UpdateIsLabelAndPayload ==
    /\ \A t \in Calls :
          /\ (Returned(t) /\ update[t] # None) => IsCommitted(update[t], ckey[t])
          /\ \A u \in Range(data[t]) : IsCommitted(u, ckey[t])
    /\ \A j \in PopIds : \A u \in Range(pops[j].result) : IsCommitted(u, pops[j].key)

C19_Witness ==
    /\ \E t \in Calls :
          /\ Returned(t) /\ kind[t] = "next"
          /\ update[t].label = "friend_relation.create"
    /\ \E j \in PopIds :
          \E u \in Range(pops[j].result) : u.label = "message.create"

\* C20: a wait_update call whose timeout expires while no commit_update was
\* made for its key returns None, and the waiter table has no entry for the
\* key when it has returned (no other wait_update on the key being in
\* flight).
C20_WaitUpdateTimeoutCleans ==
    [][\A t \in Calls :
          (/\ kind[t] = "wait_update"
           /\ InFlight(t) /\ pc'[t] = "done"
           /\ wake[t] = "timeout"
           /\ Suspended(ckey[t]) = {t}
           /\ \A i \in CommitIds : commits[i].key # ckey[t])
          => (update'[t] = None /\ ckey[t] \notin DOMAIN waiters')]_vars

\* C21: a commit_update for key k made after a wait_update on k has timed
\* out and returned, while no wait_update on k is in flight, raises nothing
\* and appends the update to the cache of k, from where the following
\* pop_cached_updates returns it.
C21_CommitAfterTimeoutIsCached ==
    [][\A k \in Keys :
          (/\ Len(commits') = Len(commits) + 1
           /\ commits'[Len(commits')].key = k
           /\ Suspended(k) = {}
           /\ \E t \in Calls : /\ kind[t] = "wait_update" /\ ckey[t] = k
                                /\ pc[t] = "done" /\ wake[t] = "timeout")
          => (/\ commits'[Len(commits')].outcome = "cached"
              /\ k \in DOMAIN cache_pools'
              /\ commits'[Len(commits')].update \in Range(cache_pools'[k]))]_vars

\* the wait_update calls on k that wait on a pending future and whose timer
\* has not fired and whose request was not cancelled
QuietlyWaiting(k) ==
    {t \in Calls : /\ kind[t] = "wait_update" /\ ckey[t] = k
                   /\ pc[t] = "suspended" /\ wake[t] = "none"
                   /\ ~Done(futures[fut[t]])}

\* C22: a commit_update for k made while two wait_update calls on k are
\* suspended resolves the handle of both with the update, and a suspended
\* wait_update always waits on the handle the waiter table holds for its key.
C22_OverlappingWaitsShareCommit ==
    /\ [](\A k \in Keys : \A t \in QuietlyWaiting(k) :
              k \in DOMAIN waiters /\ waiters[k] = fut[t])
    /\ [][\A k \in Keys :
              (/\ Len(commits') = Len(commits) + 1
               /\ commits'[Len(commits')].key = k
               /\ Cardinality(QuietlyWaiting(k)) = 2)
              => \A t \in QuietlyWaiting(k) :
                    /\ futures'[fut[t]].state = "FINISHED"
                    /\ futures'[fut[t]].result = commits'[Len(commits')].update]_vars

\* C23: a list request whose filtered collection is empty waits: it is not
\* answered by the step that finds the collection empty, so that a matching
\* message created between that check and the ceiling of the wait is in
\* its response.
C23_EmptyListWaits ==
    [][\A r \in Requests :
          (lpc[r] = "idle" /\ lpc'[r] = "done") => response'[r] # <<>>]_vars

\* C24: once a websocket connection has ended no receiver of it is
\* connected to the signals, and no model event calls send on a connection
\* that has ended.
C24_ReceiversDisconnectedOnExit ==
    /\ \A c \in Conns :
          conn[c] \in {"ended", "closed"} => receivers \cap Subscribed(c) = {}
    /\ \A msg \in lastSent : msg.live

\* the next calls on k that wait on a pending handle, with no timer fired
\* and no cancellation
WaitingOnPending(k) ==
    {t \in Calls : /\ kind[t] = "next" /\ ckey[t] = k
                   /\ pc[t] = "suspended" /\ wake[t] = "none"
                   /\ ~Done(futures[fut[t]])}

\* C25: the cleanup of a next call removes the entry of its own handle only:
\* a call that waits on a pending handle stays registered under that handle
\* while other calls on the key finish, and a commit made meanwhile is
\* delivered to it, not cached.
C25_CleanupKeepsFreshEntry ==
    /\ [](\A k \in Keys : \A t \in WaitingOnPending(k) :
              k \in DOMAIN waiters /\ waiters[k] = fut[t])
    /\ [][\A k \in Keys :
              (/\ Len(commits') = Len(commits) + 1
               /\ commits'[Len(commits')].key = k
               /\ WaitingOnPending(k) # {})
              => commits'[Len(commits')].outcome = "sent"]_vars

\* the commits of message m for key k that delivered or cached the update
FanCommits(m, k) ==
    {i \in CommitIds : /\ commits[i].payload = m /\ commits[i].key = k
                       /\ commits[i].outcome \in {"sent", "cached"}}

\* C26: once perform_create has ended for a message, every member of the
\* chatroom has had exactly one 'message.create' update of it delivered to
\* its waiter or appended to its cache.
C26_FanOutReachesEveryMember ==
    \A m \in RowIds :
        mpc[m] \in {"done", "raised"}
        => \A k \in AllKeys : Cardinality(FanCommits(m, k)) = 1

\* C27: a Friendship row (u, t) exists exactly when the row (t, u) exists;
\* both refer to the same chatroom, which exists, is friendship-exclusive
\* and has u and t as members; and a Friendship.delete removes the row, the
\* row of the other direction and their chatroom.
C27_FriendshipSymmetry ==
    /\ [](\A f \in friendships :
              /\ \E g \in friendships :
                    g.user = f.target /\ g.target = f.user /\ g.chatroom = f.chatroom
              /\ \E c \in chatrooms : c.id = f.chatroom /\ c.friendship_exclusive
              /\ MembershipExists(memberships, f.user, f.chatroom)
              /\ MembershipExists(memberships, f.target, f.chatroom))
    /\ [][\A f \in friendships :
              (f \notin friendships' /\ raised' = "none")
              => /\ ~FriendshipExists(friendships', f.target, f.user)
                 /\ \A c \in chatrooms' : c.id # f.chatroom]_vars

\* two friendships exist, after another one was deleted and a save of an
\* existing friendship was refused
C27_Witness ==
    /\ Cardinality(friendships) = 2
    /\ roomSeq = 2
    /\ Cardinality(chatrooms) = 1
    /\ raised = "IntegrityError"

\* C28: a FriendshipRequest or ChatroomMembershipRequest starts in state 'P'
\* and is moved only from 'P' to 'A' (accept) or from 'P' to 'R' (reject);
\* it is destroyed only while 'P'; a request in 'A' or 'R' keeps its state;
\* and the accept of a request creates its friendship or membership exactly
\* once: in the step that makes it 'A', and in no other step.
RequestObjectExists(req, fs, ms) ==
    IF req.kind = "friendship"
    THEN FriendshipExists(fs, req.user, req.target)
    ELSE MembershipExists(ms, req.user, req.chatroom)

C28_RequestStateMachine ==
    /\ [](\A r \in ReqIds :
              Exists(requests[r]) =>
                  created[r] = IF requests[r].state = "A" THEN 1 ELSE 0)
    /\ [][\A r \in ReqIds :
              LET old == requests[r]
                  new == requests'[r]
              IN /\ old.state = "absent" => new.state \in {"absent", "P"}
                 /\ old.state = "P" =>
                        /\ new.state \in {"P", "A", "R", "destroyed", "cascaded"}
                        /\ [new EXCEPT !.state = "P"] = old
                 /\ old.state \in {"A", "R"} =>
                        \/ new = old
                        \/ new = [old EXCEPT !.state = "cascaded"]
                 /\ (old.state = "P" /\ new.state = "A") =>
                        /\ ~RequestObjectExists(old, friendships, memberships)
                        /\ RequestObjectExists(old, friendships', memberships')
                        /\ created'[r] = created[r] + 1
                 /\ created'[r] # created[r] =>
                        old.state = "P" /\ new.state = "A"]_vars

\* both kinds of request were accepted, and an accepted friendship request
\* outlived its friendship
C28_Witness ==
    /\ \E r \in ReqIds : /\ requests[r].kind = "friendship"
                         /\ requests[r].state = "A" /\ created[r] = 1
                         /\ ~FriendshipExists(friendships, requests[r].user,
                                              requests[r].target)
    /\ \E r \in ReqIds : /\ requests[r].kind = "membership"
                         /\ requests[r].state = "A" /\ created[r] = 1

\* C29: a Message event is sent to a connection only if the user of the
\* connection is, when the signal runs, a member of the chatroom of the
\* message and is not its sender, so a non-member is never notified; and a
\* connection of the anonymous user is closed and has no receiver connected.
C29_MessageOnlyToOtherMembers ==
    /\ \A s \in lastSent :
           s.model = "Message" =>
               /\ s.member
               /\ s.inst.user # s.user
               /\ s.user # Anonymous
    /\ \A c \in Conns :
           (cuser[c] = Anonymous /\ conn[c] # "new") =>
               /\ conn[c] = "closed"
               /\ receivers \cap Subscribed(c) = {}

\* a message event reached the open connection of a member while the
\* sender's own open connection got nothing
C29_Witness ==
    \E s \in lastSent, c \in Conns :
        /\ s.model = "Message" /\ s.live
        /\ conn[c] = "open" /\ cuser[c] = s.inst.user
        /\ \A x \in lastSent : x.conn # c

\* C30: the waiter table and the cache pool are kept per view class.  An
\* update committed on an instance of one class is returned by wait_update,
\* held in the cache or returned by pop_cached_updates only on instances of
\* the same class; a commit changes no table of another class; and the
\* instances of one class share the tables: a commit on one instance
\* resolves the latest pending wait of the key on any instance of the class.
CommittedOn(u, k, c) ==
    \E i \in 1..Len(commits) :
        /\ commits[i].update = u /\ commits[i].key = k
        /\ ClassOf[commits[i].view] = c

LatestWaitOf(t) ==
    \A s \in Calls :
        (s # t /\ pc[s] # "idle" /\ ckey[s] = ckey[t]
              /\ ClassOf[cview[s]] = ClassOf[cview[t]])
        => fut[s] < fut[t]

C30_TablesPerViewClass ==
    /\ [](\A t \in Calls :
              (pc[t] = "done" /\ update[t] # None)
              => CommittedOn(update[t], ckey[t], ClassOf[cview[t]]))
    /\ [](\A v \in Views, k \in Keys :
              \A j \in 1..Len(DictGet(UpdatesCachePool(v), k, <<>>)) :
                  CommittedOn(UpdatesCachePool(v)[k][j], k, ClassOf[v]))
    /\ [](\A j \in 1..Len(pops), n \in 1..MaxCommits :
              n <= Len(pops[j].result)
              => CommittedOn(pops[j].result[n], pops[j].key,
                             ClassOf[pops[j].view]))
    /\ [][Len(commits') > Len(commits) =>
             LET c == commits'[Len(commits')]
             IN /\ \A w \in Views :
                       ClassOf[w] # ClassOf[c.view]
                       => /\ UpdateWaiters(w)' = UpdateWaiters(w)
                          /\ UpdatesCachePool(w)' = UpdatesCachePool(w)
                /\ \A t \in Calls :
                       (/\ pc[t] = "suspended" /\ ~Done(futures[fut[t]])
                        /\ ClassOf[cview[t]] = ClassOf[c.view]
                        /\ ckey[t] = c.key /\ LatestWaitOf(t))
                       => futures'[fut[t]] = [state |-> "FINISHED",
                                              result |-> c.update]]_vars

\* a commit on one instance was returned by wait_update on another instance
\* of the same class, while a wait of the same key on an instance of the
\* other class is still pending
C30_Witness ==
    \E t, s \in Calls :
        /\ pc[t] = "done" /\ update[t] # None
        /\ \E i \in 1..Len(commits) :
               /\ commits[i].update = update[t]
               /\ commits[i].view # cview[t]
        /\ pc[s] = "suspended" /\ ~Done(futures[fut[s]])
        /\ ckey[s] = ckey[t] /\ ClassOf[cview[s]] # ClassOf[cview[t]]

====
